---- MODULE Spec2Model ----
(***************************************************************************)
(* Model of pkg/crypto/helpers.go of micromdm: the self-signed key pair    *)
(* generator, the PEM readers, TopicFromCert and PKCS7Verifier.Verify.     *)
(*                                                                         *)
(* Every exported function is one action.  A call draws its inputs, runs   *)
(* the function to its return and stores the inputs in `call` and the      *)
(* returned values (with the log of the library calls it made) in `ret`.   *)
(* Library functions the file calls (encoding/pem, crypto/x509, pkcs7)     *)
(* are operators; where a library may answer in more than one way the      *)
(* operator yields the set of its possible answers.                        *)
(***************************************************************************)
EXTENDS Integers, Sequences, FiniteSets, TLC

VARIABLES pc, call, ret

vars == <<pc, call, ret>>

\* Go's nil pointer or slice (an absent key, certificate or passphrase).
Nil == "nil"

\* Go's nil error.  An error is a record of its class and the words of its
\* Error() text.
NilErr == [class |-> "nil", msg |-> <<>>]
Err(class, text) == [class |-> class, msg |-> <<text>>]

------------------------------------------------------------------------------
(* Helpers                                                                  *)

\* The sequences over S of length at most n.
SeqsUpTo(S, n) == UNION {[1..k -> S] : k \in 0..n}

------------------------------------------------------------------------------
(* 64-bit integers.  A word is its four 16-bit limbs, least significant     *)
(* first, in two's complement: Go's int64 and time.Duration.                *)

LimbBase == 2^16
SignLimb == 2^15

Zero64 == <<0, 0, 0, 0>>
One64 == <<1, 0, 0, 0>>

\* a + b, wrapping.
Add64(a, b) ==
    LET s1 == a[1] + b[1]
        s2 == a[2] + b[2] + s1 \div LimbBase
        s3 == a[3] + b[3] + s2 \div LimbBase
        s4 == a[4] + b[4] + s3 \div LimbBase
    IN  <<s1 % LimbBase, s2 % LimbBase, s3 % LimbBase, s4 % LimbBase>>

\* -a, wrapping.
Neg64(a) ==
    Add64([i \in 1..4 |-> LimbBase - 1 - a[i]], One64)

Sub64(a, b) == Add64(a, Neg64(b))

\* The word of an integer small enough for the checker's own arithmetic.
FromInt(n) ==
    IF n >= 0 THEN <<n % LimbBase, n \div LimbBase, 0, 0>>
    ELSE Neg64(<<(-n) % LimbBase, (-n) \div LimbBase, 0, 0>>)

IsNeg64(a) == a[4] >= SignLimb

\* a * k, wrapping, for 0 <= k <= 3600.
MulSmall64(a, k) ==
    LET p1 == a[1] * k
        p2 == a[2] * k + p1 \div LimbBase
        p3 == a[3] * k + p2 \div LimbBase
        p4 == a[4] * k + p3 \div LimbBase
    IN  <<p1 % LimbBase, p2 % LimbBase, p3 % LimbBase, p4 % LimbBase>>

\* Quotient and remainder of the unsigned word a by k, 0 < k <= 1000.
DivModSmall(a, k) ==
    LET n4 == a[4]
        n3 == (n4 % k) * LimbBase + a[3]
        n2 == (n3 % k) * LimbBase + a[2]
        n1 == (n2 % k) * LimbBase + a[1]
    IN  [q |-> <<n1 \div k, n2 \div k, n3 \div k, n4 \div k>>, r |-> n1 % k]

\* a < b as signed words.
Less64(a, b) ==
    LET key(w) == <<(w[4] + SignLimb) % LimbBase, w[3], w[2], w[1]>>
        ka == key(a)
        kb == key(b)
    IN  \E i \in 1..4 :
          /\ ka[i] < kb[i]
          /\ \A j \in 1..(i - 1) : ka[j] = kb[j]

\* d / 1e9 and d % 1e9 of Go (truncated toward zero) for a signed word d.
QuoRemBillion(d) ==
    LET mag == IF IsNeg64(d) THEN Neg64(d) ELSE d
        a == DivModSmall(mag, 1000)
        b == DivModSmall(a.q, 1000)
        c == DivModSmall(b.q, 1000)
        rem == a.r + 1000 * b.r + 1000000 * c.r
    IN  IF IsNeg64(d) THEN [q |-> Neg64(c.q), r |-> -rem]
        ELSE [q |-> c.q, r |-> rem]

------------------------------------------------------------------------------
(* SimpleSelfSignedRSAKeypair                                               *)

\* A time.Time: seconds since the Unix epoch (a signed word) and nanoseconds.
TimeOf(sec, nsec) == [sec |-> sec, nsec |-> nsec]

\* time.Time.Add.
TimeAdd(t, d) ==
    LET qr == QuoRemBillion(d)
        n == t.nsec + qr.r
    IN  IF n >= 1000000000
          THEN TimeOf(Add64(Add64(t.sec, qr.q), One64), n - 1000000000)
        ELSE IF n < 0
          THEN TimeOf(Sub64(Add64(t.sec, qr.q), One64), n + 1000000000)
        ELSE TimeOf(Add64(t.sec, qr.q), n)

\* time.Hour in nanoseconds times a: 3600 * 1000 * 1000 * 1000.
MulHour(a) ==
    MulSmall64(MulSmall64(MulSmall64(MulSmall64(a, 3600), 1000), 1000), 1000)

\* helpers.go:43, time.Duration(days) * 24 * time.Hour.
ValidityDuration(days) ==
    MulHour(MulSmall64(FromInt(days), 24))

\* A time as it comes back from the DER encoding of a certificate: whole
\* seconds.
DERTime(t) == TimeOf(t.sec, 0)

\* The values of days the calls are made with.
DaysValues == {-365, -1, 0, 1, 365, 3650, 106751, 106752, 213504}

\* The readings of time.Now(): instants of 2026-11-05.
NowValues ==
    {TimeOf(FromInt(1793836800), 0),
     TimeOf(FromInt(1793836800), 500000000),
     TimeOf(FromInt(1793880000), 999999999)}

CommonNames == {"mdm.example.org", ""}

\* The step of SimpleSelfSignedRSAKeypair that fails, if one does.
FailSteps == {"none", "GenerateKey", "SerialNumber", "CreateCertificate",
              "ParseCertificate"}

Serials == {"serial1", "serial2"}

NoCert ==
    [present |-> FALSE, SerialNumber |-> "", CommonName |-> "",
     DNSNames |-> <<>>, NotBefore |-> TimeOf(Zero64, 0),
     NotAfter |-> TimeOf(Zero64, 0)]

\* helpers.go:37-48, the template.
Template(cn, days, serialNumber, timeNow) ==
    [present |-> TRUE, SerialNumber |-> serialNumber, CommonName |-> cn,
     DNSNames |-> <<cn>>, NotBefore |-> timeNow,
     NotAfter |-> TimeAdd(timeNow, ValidityDuration(days))]

\* x509.ParseCertificate of x509.CreateCertificate's bytes.
ParseCreated(template) ==
    [template EXCEPT !.NotBefore = DERTime(template.NotBefore),
                     !.NotAfter = DERTime(template.NotAfter)]

\* SimpleSelfSignedRSAKeypair.  newKey is the key rsa.GenerateKey makes; every
\* return hands back the current values of the results key and cert.
SimpleSelfSignedRSAKeypair(cn, days, newKey, serialNumber, timeNow, fail) ==
    IF fail = "GenerateKey"
      THEN [key |-> Nil, cert |-> NoCert,
            err |-> Err("keygen", "crypto/rsa: entropy source failed")]
    ELSE IF fail = "SerialNumber"
      THEN [key |-> newKey, cert |-> NoCert,
            err |-> Err("keygen", "crypto/rand: entropy source failed")]
    ELSE IF fail = "CreateCertificate"
      THEN [key |-> newKey, cert |-> NoCert,
            err |-> Err("certificate", "x509: failed to sign certificate")]
    ELSE IF fail = "ParseCertificate"
      THEN [key |-> newKey, cert |-> NoCert,
            err |-> Err("certificate", "x509: malformed certificate")]
    ELSE [key |-> newKey,
          cert |-> ParseCreated(Template(cn, days, serialNumber, timeNow)),
          err |-> NilErr]

SimpleSelfSignedRSAKeypairCall ==
    /\ pc = "idle"
    /\ \E cn \in CommonNames, days \in DaysValues, serialNumber \in Serials,
          timeNow \in NowValues, fail \in FailSteps :
          /\ call' = [op |-> "SimpleSelfSignedRSAKeypair", cn |-> cn,
                      days |-> days, timeNow |-> timeNow, fail |-> fail]
          /\ ret' = SimpleSelfSignedRSAKeypair(cn, days, "rsa2048",
                                               serialNumber, timeNow, fail)
    /\ pc' = "done"

------------------------------------------------------------------------------
(* The PEM readers                                                          *)

\* A file holds at most MaxSegs segments.
MaxSegs == 3

rsaPrivateKeyPEMBlockType == "RSA PRIVATE KEY"
certificatePEMBlockType == "CERTIFICATE"

\* A []byte: nil, or its content (possibly empty).
NilBytes == [isNil |-> TRUE, b |-> <<>>]
BytesOf(b) == [isNil |-> FALSE, b |-> b]

\* A block's payload is a sequence of elements: a DER certificate, a DER
\* PKCS#1 key, bytes that are no DER structure, or a key encrypted under a
\* passphrase.
DERCert(id) == [kind |-> "cert", id |-> id, pass |-> <<>>]
DERKey(id) == [kind |-> "key", id |-> id, pass |-> <<>>]
DERJunk == [kind |-> "junk", id |-> "", pass |-> <<>>]
Cipher(id, pass) == [kind |-> "cipher", id |-> id, pass |-> pass]

\* The segments of a file: a well-formed armored block, text that is no PEM
\* at all, or a block that is malformed (no END line, bad base64).
Block(type, headers, bytes) ==
    [kind |-> "block", Type |-> type, Headers |-> headers, Bytes |-> bytes]
Garbage == [kind |-> "garbage", Type |-> "", Headers |-> {}, Bytes |-> <<>>]
Malformed == [kind |-> "malformed", Type |-> "", Headers |-> {}, Bytes |-> <<>>]
\* pem.Decode's nil *pem.Block.
NoBlock == [kind |-> "nil", Type |-> "", Headers |-> {}, Bytes |-> <<>>]

Segments ==
    { Block(certificatePEMBlockType, {}, <<DERCert("A")>>),
      Block(certificatePEMBlockType, {}, <<DERCert("B")>>),
      Block(certificatePEMBlockType, {}, <<DERJunk>>),
      Block(rsaPrivateKeyPEMBlockType, {}, <<DERKey("K")>>),
      Block(rsaPrivateKeyPEMBlockType, {}, <<DERCert("A")>>),
      Block(rsaPrivateKeyPEMBlockType, {"Proc-Type", "DEK-Info"},
            <<Cipher("K", <<"p", "w">>)>>),
      Garbage,
      Malformed }

\* What ioutil.ReadFile finds at the path: no readable file, or its bytes.
Files ==
    {[readable |-> FALSE, data |-> <<>>]}
    \cup {[readable |-> TRUE, data |-> d] : d \in SeqsUpTo(Segments, MaxSegs)}

Passwords == {NilBytes, BytesOf(<<>>), BytesOf(<<"p", "w">>), BytesOf(<<"x">>)}

ErrReadFile == Err("io", "open: no such file or directory")

\* encoding/pem Decode: finds the next well-formed block of data, skipping
\* whatever precedes it; the nil block and data itself when there is none.
RECURSIVE FirstBlockIndex(_, _)
FirstBlockIndex(data, i) ==
    IF i > Len(data) THEN 0
    ELSE IF data[i].kind = "block" THEN i
    ELSE FirstBlockIndex(data, i + 1)

pemDecode(data) ==
    LET i == FirstBlockIndex(data, 1)
    IN  IF i = 0
          THEN [block |-> NoBlock, rest |-> data]
          ELSE [block |-> data[i], rest |-> SubSeq(data, i + 1, Len(data))]

\* x509.ParseCertificates on concatenated DER.
ParseCertificates(asn1data) ==
    IF \A i \in 1..Len(asn1data) : asn1data[i].kind = "cert"
      THEN [certs |-> [i \in 1..Len(asn1data) |-> asn1data[i].id],
            err |-> NilErr]
      ELSE [certs |-> <<>>, err |-> Err("x509", "x509: malformed certificate")]

\* A test that forgets the block's type.
BlockRejectedNilOnly(block) == block = NoBlock

\* helpers.go:87, the test of each decoded block.
BlockRejected(block) ==
    block = NoBlock \/ block.Type # certificatePEMBlockType

\* A scan that stops quietly at the first place no block is found, as the
\* usual loop over pem.Decode does.
RECURSIVE ScanCertificatesLenient(_, _, _)
ScanCertificatesLenient(asn1data, rest, n) ==
    LET d == pemDecode(rest)
    IN  IF d.block = NoBlock
          THEN [failed |-> FALSE, asn1data |-> asn1data, decodes |-> n + 1]
        ELSE IF d.block.Type # certificatePEMBlockType
          THEN [failed |-> TRUE, asn1data |-> asn1data, decodes |-> n + 1]
        ELSE ScanCertificatesLenient(asn1data \o d.block.Bytes, d.rest, n + 1)

\* helpers.go:84-94, the scan; n counts the calls of pem.Decode.
RECURSIVE ScanCertificates(_, _, _)
ScanCertificates(asn1data, rest, n) ==
    LET d == pemDecode(rest)
    IN  IF BlockRejected(d.block)
          THEN [failed |-> TRUE, asn1data |-> asn1data, decodes |-> n + 1]
          ELSE LET appended == asn1data \o d.block.Bytes
               IN  IF Len(d.rest) = 0
                     THEN [failed |-> FALSE, asn1data |-> appended,
                           decodes |-> n + 1]
                     ELSE ScanCertificates(appended, d.rest, n + 1)

ErrCertDecode ==
    Err("armor", "failed to decode PEM block containing certificate")

\* ReadPEMCertificatesFile: certs is the returned slice (isNil when nil).
ReadPEMCertificatesFile(file) ==
    IF ~file.readable
      THEN [certs |-> NilBytes, err |-> ErrReadFile, decodes |-> 0]
      ELSE LET scan == ScanCertificates(<<>>, file.data, 0)
           IN  IF scan.failed
                 THEN [certs |-> NilBytes, err |-> ErrCertDecode,
                       decodes |-> scan.decodes]
                 ELSE LET parsed == ParseCertificates(scan.asn1data)
                      IN  IF parsed.err # NilErr
                            THEN [certs |-> NilBytes, err |-> parsed.err,
                                  decodes |-> scan.decodes]
                            ELSE [certs |-> BytesOf(parsed.certs),
                                  err |-> NilErr, decodes |-> scan.decodes]

ErrCardinality == Err("cardinality", "incorrect number of certificates")

\* ReadPEMCertificateFile: cert is the returned certificate or Nil.
ReadPEMCertificateFile(file) ==
    LET r == ReadPEMCertificatesFile(file)
    IN  IF r.err # NilErr THEN [cert |-> Nil, err |-> r.err]
        ELSE IF Len(r.certs.b) # 1 THEN [cert |-> Nil, err |-> ErrCardinality]
        ELSE [cert |-> r.certs.b[1], err |-> NilErr]

\* x509.IsEncryptedPEMBlock.
IsEncryptedPEMBlock(block) == "DEK-Info" \in block.Headers

\* x509.DecryptPEMBlock: the possible answers.  A wrong passphrase is not
\* always detected; undetected, the bytes returned are noise.
DecryptPEMBlock(block, password) ==
    LET c == block.Bytes[1]
    IN  IF Len(block.Bytes) = 1 /\ c.kind = "cipher" /\ c.pass = password.b
          THEN {[der |-> <<DERKey(c.id)>>, err |-> NilErr]}
          ELSE {[der |-> <<>>,
                 err |-> Err("decrypt", "x509: decryption password incorrect")],
                [der |-> <<DERJunk>>, err |-> NilErr]}

\* x509.ParsePKCS1PrivateKey.
ParsePKCS1PrivateKey(der) ==
    IF Len(der) = 1 /\ der[1].kind = "key"
      THEN [key |-> der[1].id, err |-> NilErr]
      ELSE [key |-> Nil, err |-> Err("asn1", "asn1: structure error")]

ErrPEMDecode == Err("armor", "PEM decode failed")
ErrPEMType(got) ==
    [class |-> "armor",
     msg |-> <<"expecting PEM type of", rsaPrivateKeyPEMBlockType,
               ", but got", got>>]
ErrNoPassword == Err("missing-passphrase", "no supplied password for encrypted PEM")
ErrNotEncrypted ==
    Err("unexpected-passphrase", "supplied PEM password, but not encrypted")

\* A test of the passphrase's length in place of its absence.
PasswordEmpty(password) == Len(password.b) = 0

\* helpers.go:117, the test for an absent passphrase.
PasswordAbsent(password) == password.isNil

\* ReadEncryptedPEMRSAKeyFile: the possible returns; calls logs the library
\* calls made after pem.Decode.
ReadEncryptedPEMRSAKeyFile(file, password) ==
    IF ~file.readable
      THEN {[key |-> Nil, err |-> ErrReadFile, calls |-> <<>>]}
    ELSE LET pemBlock == pemDecode(file.data).block
         IN  IF pemBlock = NoBlock
               THEN {[key |-> Nil, err |-> ErrPEMDecode, calls |-> <<>>]}
             ELSE IF pemBlock.Type # rsaPrivateKeyPEMBlockType
               THEN {[key |-> Nil, err |-> ErrPEMType(pemBlock.Type),
                      calls |-> <<>>]}
             ELSE IF IsEncryptedPEMBlock(pemBlock)
               THEN IF PasswordAbsent(password)
                      THEN {[key |-> Nil, err |-> ErrNoPassword, calls |-> <<>>]}
                      ELSE { IF dec.err # NilErr
                               THEN [key |-> Nil, err |-> dec.err,
                                     calls |-> <<"DecryptPEMBlock">>]
                               ELSE [key |-> ParsePKCS1PrivateKey(dec.der).key,
                                     err |-> ParsePKCS1PrivateKey(dec.der).err,
                                     calls |-> <<"DecryptPEMBlock",
                                                 "ParsePKCS1PrivateKey">>]
                             : dec \in DecryptPEMBlock(pemBlock, password) }
             ELSE IF ~PasswordAbsent(password)
               THEN {[key |-> Nil, err |-> ErrNotEncrypted, calls |-> <<>>]}
             ELSE {[key |-> ParsePKCS1PrivateKey(pemBlock.Bytes).key,
                    err |-> ParsePKCS1PrivateKey(pemBlock.Bytes).err,
                    calls |-> <<"ParsePKCS1PrivateKey">>]}

\* ReadPEMRSAKeyFile.
ReadPEMRSAKeyFile(file) == ReadEncryptedPEMRSAKeyFile(file, NilBytes)

ReadPEMCertificatesFileCall ==
    /\ pc = "idle"
    /\ \E file \in Files :
          /\ call' = [op |-> "ReadPEMCertificatesFile", file |-> file]
          /\ ret' = ReadPEMCertificatesFile(file)
    /\ pc' = "done"

ReadPEMCertificateFileCall ==
    /\ pc = "idle"
    /\ \E file \in Files :
          /\ call' = [op |-> "ReadPEMCertificateFile", file |-> file]
          /\ ret' = ReadPEMCertificateFile(file)
    /\ pc' = "done"

ReadEncryptedPEMRSAKeyFileCall ==
    /\ pc = "idle"
    /\ \E file \in Files, password \in Passwords :
          \E r \in ReadEncryptedPEMRSAKeyFile(file, password) :
            /\ call' = [op |-> "ReadEncryptedPEMRSAKeyFile", file |-> file,
                        password |-> password]
            /\ ret' = r
    /\ pc' = "done"

ReadPEMRSAKeyFileCall ==
    /\ pc = "idle"
    /\ \E file \in Files :
          \E r \in ReadPEMRSAKeyFile(file) :
            /\ call' = [op |-> "ReadPEMRSAKeyFile", file |-> file,
                        password |-> NilBytes]
            /\ ret' = r
    /\ pc' = "done"

------------------------------------------------------------------------------
(* TopicFromCert                                                            *)

\* A subject holds at most MaxAttrs attributes.
MaxAttrs == 3

\* Strings are sequences of characters.
TopicPrefix ==
    <<"c", "o", "m", ".", "a", "p", "p", "l", "e", ".", "m", "g", "m", "t">>

\* strings.HasPrefix.
HasPrefix(str, prefix) ==
    /\ Len(str) >= Len(prefix)
    /\ \A i \in 1..Len(prefix) : str[i] = prefix[i]

oidASN1UserID == <<0, 9, 2342, 19200300, 100, 1, 1>>
oidDomainComponent == <<0, 9, 2342, 19200300, 100, 1, 25>>
oidCommonName == <<2, 5, 4, 3>>

\* asn1.ObjectIdentifier.Equal.
OIDEqual(a, b) ==
    /\ Len(a) = Len(b)
    /\ \A i \in 1..Len(a) : a[i] = b[i]

\* An attribute value: a Go string, or a value of another type.
StringValue(str) == [isString |-> TRUE, str |-> str]
OtherValue == [isString |-> FALSE, str |-> <<>>]

AttributeValues ==
    { StringValue(TopicPrefix \o <<".", "x">>),
      StringValue(TopicPrefix),
      StringValue(SubSeq(TopicPrefix, 1, Len(TopicPrefix) - 1)),
      StringValue(<<"n", "o">>),
      OtherValue }

Attributes ==
    {[Type |-> oidASN1UserID, Value |-> v] : v \in AttributeValues}
    \cup {[Type |-> oidCommonName, Value |-> StringValue(TopicPrefix \o <<".", "x">>)],
          [Type |-> oidDomainComponent, Value |-> StringValue(TopicPrefix)]}

\* cert.Subject.Names of the certificates given to TopicFromCert.
SubjectNames == SeqsUpTo(Attributes, MaxAttrs)

ErrInvalidTopic(uid) ==
    [class |-> "invalid-topic",
     msg |-> <<"invalid Push Topic (UserID OID) in certificate. Must start with 'com.apple.mgmt', was: ">>
             \o uid]
ErrTopicNotFound ==
    Err("topic-not-found", "could not find Push Topic (UserID OID) in certificate")

\* A loop that goes on to later attributes when a UserID value is invalid.
RECURSIVE ScanNamesPastInvalid(_, _)
ScanNamesPastInvalid(names, i) ==
    IF i > Len(names) THEN [topic |-> <<>>, err |-> ErrTopicNotFound]
    ELSE LET v == names[i]
             ok == v.Value.isString
             uid == IF ok THEN v.Value.str ELSE <<>>
         IN  IF OIDEqual(v.Type, oidASN1UserID) /\ ok /\ HasPrefix(uid, TopicPrefix)
               THEN [topic |-> uid, err |-> NilErr]
               ELSE ScanNamesPastInvalid(names, i + 1)

\* helpers.go:185-195, the loop over cert.Subject.Names from index i on.
RECURSIVE ScanNames(_, _)
ScanNames(names, i) ==
    IF i > Len(names) THEN [topic |-> <<>>, err |-> ErrTopicNotFound]
    ELSE LET v == names[i]
             ok == v.Value.isString
             uid == IF ok THEN v.Value.str ELSE <<>>
         IN  IF OIDEqual(v.Type, oidASN1UserID)
               THEN IF ok /\ HasPrefix(uid, TopicPrefix)
                      THEN [topic |-> uid, err |-> NilErr]
                      ELSE [topic |-> <<>>, err |-> ErrInvalidTopic(uid)]
               ELSE ScanNames(names, i + 1)

TopicFromCert(names) == ScanNames(names, 1)

TopicFromCertCall ==
    /\ pc = "idle"
    /\ \E names \in SubjectNames :
          /\ call' = [op |-> "TopicFromCert", names |-> names]
          /\ ret' = TopicFromCert(names)
    /\ pc' = "done"

------------------------------------------------------------------------------
(* PKCS7Verifier.Verify                                                     *)

\* Instants of the verifier's clock and of validity windows are 0..MaxTime.
MaxTime == 4
\* PKCS7Verifier.MaxSkew ranges over 0..MaxSkewBound.
MaxSkewBound == 2
\* The clock advances by 0..MaxDrift between the two time.Now() calls of Verify.
MaxDrift == 1

\* An error message is the sequence of its words.
MatchAt(s, sub, i) ==
    \A k \in 1..Len(sub) : s[i + k - 1] = sub[k]

\* strings.Contains on word sequences.
Contains(s, sub) ==
    \E i \in 1..(Len(s) - Len(sub) + 1) : MatchAt(s, sub, i)

\* The text Verify looks for in the failure of the first attempt.
OutsideValidityText == <<"is", "outside", "of", "certificate", "validity">>

\* The failures of the PKCS7 engine, each with the text of its Error().
ErrOutsideValidity ==
    [class |-> "validity",
     msg |-> <<"pkcs7:", "signing", "time", "is", "outside", "of",
               "certificate", "validity">>]
ErrNoSigner ==
    [class |-> "malformed", msg |-> <<"pkcs7:", "Message", "has", "no", "signers">>]
ErrDigest ==
    [class |-> "signature", msg |-> <<"pkcs7:", "Message", "digest", "mismatch">>]
ErrChain ==
    [class |-> "chain",
     msg |-> <<"x509:", "certificate", "signed", "by", "unknown", "authority">>]

Defects == {"malformed", "signature", "chain"}

DefectError(d) ==
    CASE d = "malformed" -> ErrNoSigner
      [] d = "signature" -> ErrDigest
      [] d = "chain" -> ErrChain

\* Signed envelopes: the signer certificate's validity window and what is
\* wrong with the envelope besides time.
Envelopes ==
    [NotBefore : 0..MaxTime, NotAfter : 0..MaxTime, defects : SUBSET Defects]

\* p7.VerifyWithChainAtTime(nil, t): the failures the engine may report at
\* reference time t; NilErr alone when every check passes.  Which of several
\* failing checks is reported is the engine's choice.
VerifyWithChainAtTime(p7, t) ==
    LET failures ==
            {DefectError(d) : d \in p7.defects}
            \cup (IF t < p7.NotBefore \/ t > p7.NotAfter
                    THEN {ErrOutsideValidity} ELSE {})
    IN  IF failures = {} THEN {NilErr} ELSE failures

\* A retry on every failure of the first attempt.
ShouldRetryOnAnyError(err) == err # NilErr

\* helpers.go:210, the condition of the retry.
ShouldRetry(err) ==
    err # NilErr /\ Contains(err.msg, OutsideValidityText)

\* helpers.go:207, the reference time of the first attempt.
FirstAttemptTime(now, MaxSkew) == now + MaxSkew

\* A second attempt that shifts the clock forward again.
SecondAttemptForward(now, MaxSkew) == now + MaxSkew

\* helpers.go:211, the reference time of the second attempt.
SecondAttemptTime(now, MaxSkew) == now - MaxSkew

\* helpers.go:211-213, what Verify returns given both attempts' failures.
VerifyReturn(err1, err2) ==
    IF ShouldRetry(err1) THEN err2 ELSE err1

\* PKCS7Verifier.Verify: the possible returns, each with the attempts made.
\* now1 and now2 are the two readings of time.Now().
Verify(p7, MaxSkew, now1, now2) ==
    LET t1 == FirstAttemptTime(now1, MaxSkew)
        t2 == SecondAttemptTime(now2, MaxSkew)
    IN  UNION {
          IF ShouldRetry(err1)
            THEN {[err |-> VerifyReturn(err1, err2),
                   attempts |-> <<[t |-> t1, err |-> err1],
                                  [t |-> t2, err |-> err2]>>]
                  : err2 \in VerifyWithChainAtTime(p7, t2)}
            ELSE {[err |-> VerifyReturn(err1, NilErr),
                   attempts |-> <<[t |-> t1, err |-> err1]>>]}
          : err1 \in VerifyWithChainAtTime(p7, t1) }

VerifyCall ==
    /\ pc = "idle"
    /\ \E p7 \in Envelopes, MaxSkew \in 0..MaxSkewBound,
          now \in 0..MaxTime, drift \in 0..MaxDrift :
          \E r \in Verify(p7, MaxSkew, now, now + drift) :
            /\ call' = [op |-> "Verify", p7 |-> p7, MaxSkew |-> MaxSkew,
                        now1 |-> now, now2 |-> now + drift]
            /\ ret' = r
    /\ pc' = "done"

------------------------------------------------------------------------------
(* The calls                                                                *)

NoCall == [op |-> "none"]
NoRet == [err |-> NilErr]

Init ==
    /\ pc = "idle"
    /\ call = NoCall
    /\ ret = NoRet

\* The caller takes the result; the next call may start.
Return ==
    /\ pc = "done"
    /\ pc' = "idle"
    /\ call' = NoCall
    /\ ret' = NoRet

Next ==
    \/ SimpleSelfSignedRSAKeypairCall
    \/ ReadPEMCertificatesFileCall
    \/ ReadPEMCertificateFileCall
    \/ ReadEncryptedPEMRSAKeyFileCall
    \/ ReadPEMRSAKeyFileCall
    \/ TopicFromCertCall
    \/ VerifyCall
    \/ Return

Spec == Init /\ [][Next]_vars

------------------------------------------------------------------------------
(* Properties                                                               *)

\* The call of op has returned.
Done(op) == pc = "done" /\ call.op = op

DoneAmong(ops) == pc = "done" /\ call.op \in ops

\* --- PKCS7Verifier.Verify ---

\* C1: when the first attempt of Verify (at now + MaxSkew) fails for a reason
\* other than the reference time being outside the validity window, no second
\* attempt is made and Verify returns exactly that failure.
C1_NoRetryOnOtherFailure ==
    Done("Verify") =>
        LET first == ret.attempts[1]
        IN  (first.err # NilErr /\ first.err.class # "validity")
              => (Len(ret.attempts) = 1 /\ ret.err = first.err)

\* A tampered signature reported by the first attempt under a positive skew,
\* with the reference time outside the window as well.
C1_Witness ==
    /\ Done("Verify")
    /\ call.MaxSkew > 0
    /\ call.now1 + call.MaxSkew > call.p7.NotAfter
    /\ ret.attempts[1].err = ErrDigest
    /\ Len(ret.attempts) = 1
    /\ ret.err = ErrDigest

\* C2: the first attempt is made at now + MaxSkew; when it succeeds Verify
\* returns success with no second attempt; when it fails because the reference
\* time is outside the validity window exactly one further attempt is made, at
\* now - MaxSkew (now as read for that attempt), and its outcome is the result;
\* never more than two attempts.
C2_RetryPolicy ==
    Done("Verify") =>
        LET n == Len(ret.attempts)
            first == ret.attempts[1]
            t2 == call.now2 - call.MaxSkew
        IN  /\ n \in {1, 2}
            /\ first.t = call.now1 + call.MaxSkew
            /\ first.err \in VerifyWithChainAtTime(call.p7, first.t)
            /\ first.err = NilErr => (n = 1 /\ ret.err = NilErr)
            /\ first.err.class = "validity" =>
                 /\ n = 2
                 /\ ret.attempts[2].t = t2
                 /\ ret.attempts[2].err \in VerifyWithChainAtTime(call.p7, t2)
                 /\ ret.err = ret.attempts[2].err

\* The second attempt saves an envelope the first one found not yet expired.
C2_Witness ==
    /\ Done("Verify")
    /\ call.MaxSkew > 0
    /\ Len(ret.attempts) = 2
    /\ ret.attempts[1].err = ErrOutsideValidity
    /\ ret.attempts[2].err = NilErr
    /\ ret.err = NilErr

\* C3: MaxSkew widens the acceptance window symmetrically: an envelope with a
\* correct signature and chain and validity window [NotBefore, NotAfter] is
\* accepted whenever now lies in [NotBefore - MaxSkew, NotAfter + MaxSkew],
\* also when the window is shorter than 2 x MaxSkew.
C3_SymmetricWindow ==
    ( /\ Done("Verify")
      /\ call.p7.defects = {}
      /\ call.p7.NotBefore <= call.p7.NotAfter
      /\ \A now \in {call.now1, call.now2} :
            /\ call.p7.NotBefore - call.MaxSkew <= now
            /\ now <= call.p7.NotAfter + call.MaxSkew )
    => ret.err = NilErr

\* --- The PEM readers ---

\* The places of the well-formed blocks of a file.
BlockIndexes(data) == {i \in 1..Len(data) : data[i].kind = "block"}

\* The first well-formed block of a file that has one.
FirstBlock(data) ==
    data[CHOOSE i \in BlockIndexes(data) : \A j \in BlockIndexes(data) : i <= j]

\* The block's payload is encrypted key material.
PayloadEncrypted(block) ==
    \E i \in 1..Len(block.Bytes) : block.Bytes[i].kind = "cipher"

KeyReaders == {"ReadEncryptedPEMRSAKeyFile", "ReadPEMRSAKeyFile"}
CertReaders == {"ReadPEMCertificatesFile", "ReadPEMCertificateFile"}

\* C4: reading a key is fail-closed on a passphrase/encryption mismatch: when
\* the RSA PRIVATE KEY block is encrypted and no passphrase is supplied the
\* result is the missing-passphrase error; when it is unencrypted and any
\* passphrase is supplied (an empty, non-absent one too) the result is the
\* unexpected-passphrase error; in both cases no key is returned and neither
\* decryption nor parsing is attempted.
C4_PassphraseMismatchFailsClosed ==
    ( /\ DoneAmong(KeyReaders)
      /\ call.file.readable
      /\ BlockIndexes(call.file.data) # {}
      /\ FirstBlock(call.file.data).Type = rsaPrivateKeyPEMBlockType )
    => LET block == FirstBlock(call.file.data)
       IN  /\ (PayloadEncrypted(block) /\ call.password.isNil)
                => (ret.err = ErrNoPassword /\ ret.key = Nil /\ ret.calls = <<>>)
           /\ (~PayloadEncrypted(block) /\ ~call.password.isNil)
                => (ret.err = ErrNotEncrypted /\ ret.key = Nil /\ ret.calls = <<>>)

\* An empty, non-absent passphrase with an unencrypted key block.
C4_Witness ==
    /\ Done("ReadEncryptedPEMRSAKeyFile")
    /\ call.file.data = <<Block(rsaPrivateKeyPEMBlockType, {}, <<DERKey("K")>>)>>
    /\ call.password = BytesOf(<<>>)
    /\ ret.err = ErrNotEncrypted
    /\ ret.key = Nil

IsCertificateBlock(seg) ==
    seg.kind = "block" /\ seg.Type = certificatePEMBlockType

ScanMustFail(data) ==
    \/ BlockIndexes(data) = {}
    \/ data[Len(data)].kind # "block"
    \/ \E i \in BlockIndexes(data) : data[i].Type # certificatePEMBlockType

OnlyCertificatesAndText(data) ==
    /\ BlockIndexes(data) # {}
    /\ data[Len(data)].kind = "block"
    /\ \A i \in BlockIndexes(data) :
          /\ data[i].Type = certificatePEMBlockType
          /\ \A k \in 1..Len(data[i].Bytes) : data[i].Bytes[k].kind = "cert"

C7_NoPartialStateOnError ==
    (Done("SimpleSelfSignedRSAKeypair") /\ ret.err # NilErr)
    => (ret.key = Nil /\ ~ret.cert.present)

\* days x 24 hours in seconds, which never leaves 64 bits for the days drawn.
DaysInSeconds(days) == MulSmall64(MulSmall64(FromInt(days), 24), 3600)

\* C8: for every certificate SimpleSelfSignedRSAKeypair returns, for every
\* days, NotAfter - NotBefore is exactly days x 24 hours.
C8_ValidityEqualsDays ==
    (Done("SimpleSelfSignedRSAKeypair") /\ ret.err = NilErr)
    => /\ Sub64(ret.cert.NotAfter.sec, ret.cert.NotBefore.sec)
            = DaysInSeconds(call.days)
       /\ ret.cert.NotAfter.nsec = ret.cert.NotBefore.nsec

\* t is before u.
TimeBefore(t, u) ==
    \/ Less64(t.sec, u.sec)
    \/ (t.sec = u.sec /\ t.nsec < u.nsec)

\* C9: every certificate SimpleSelfSignedRSAKeypair returns without error has
\* NotAfter > NotBefore, for every days, zero and negative too.
C9_NotAfterExceedsNotBefore ==
    (Done("SimpleSelfSignedRSAKeypair") /\ ret.err = NilErr)
    => TimeBefore(ret.cert.NotBefore, ret.cert.NotAfter)

\* --- TopicFromCert ---

\* The places of the attributes whose type is the UserID OID.
UserIDIndexes(names) == {i \in 1..Len(names) : names[i].Type = oidASN1UserID}

\* C10: TopicFromCert is decided by the first subject attribute, in stored
\* order, whose OID is the UserID OID: text beginning with "com.apple.mgmt" is
\* returned verbatim; anything else is an invalid-topic error, whatever later
\* attributes hold; no such attribute is a topic-not-found error.
C10_FirstUserIDDecides ==
    Done("TopicFromCert") =>
        LET ids == UserIDIndexes(call.names)
        IN  IF ids = {}
              THEN ret.err = ErrTopicNotFound /\ ret.topic = <<>>
              ELSE LET first == CHOOSE i \in ids : \A j \in ids : i <= j
                       value == call.names[first].Value
                   IN  IF /\ value.isString
                          /\ Len(value.str) >= Len(TopicPrefix)
                          /\ SubSeq(value.str, 1, Len(TopicPrefix)) = TopicPrefix
                         THEN ret.err = NilErr /\ ret.topic = value.str
                         ELSE ret.err.class = "invalid-topic" /\ ret.topic = <<>>

\* An invalid UserID attribute followed by a valid one: the invalid one decides.
C10_Witness ==
    /\ Done("TopicFromCert")
    /\ Len(call.names) >= 2
    /\ call.names[1] = [Type |-> oidASN1UserID, Value |-> StringValue(<<"n", "o">>)]
    /\ call.names[2] =
         [Type |-> oidASN1UserID, Value |-> StringValue(TopicPrefix \o <<".", "x">>)]
    /\ ret.err.class = "invalid-topic"
====
